---- MODULE Spec2Model ----
(***************************************************************************)
(* Model of image-viewer.py: the ImageViewer window, its slideshow state   *)
(* machine, playback timer, slider debounce and persisted configuration.   *)
(*                                                                         *)
(* Every handler of the class is an operator from a record of the object's *)
(* fields to the record after the handler returned, so that a handler that *)
(* calls another one is the composition of the two.  The actions apply one *)
(* handler to the current state.  Qt's widgets are modelled by the part of *)
(* their documented behaviour the handlers rely on (QSlider clamps its     *)
(* value to its range and emits sliderMoved when its value is changed      *)
(* while the handle is held; QComboBox emits currentIndexChanged only on a *)
(* change; a widget receives its pending move and resize events when it is *)
(* first shown).                                                           *)
(***************************************************************************)
EXTENDS Integers, Sequences, FiniteSets, TLC

\* ---------------------------------------------------------------- bounds
\* Largest number of matching files a folder listing returns.
MaxImages == 3

\* Folders the user can pick in the folder dialog.
Folders == {"A", "B"}

\* The entries of the delay combo box the user picks: the first one, which
\* is the combo box's index as constructed, and the default delay's.
DelayInputs == {0, 3}

\* Rectangles are <<x, y, width, height>>, in units of 160 pixels.  A desktop
\* is the list of its screens' rectangles, the primary screen first and at
\* the origin of the virtual desktop.
ScreenLayouts ==
    { << <<0, 0, 10, 8>> >>,
      << <<0, 0, 5, 4>> >>,
      << <<0, 0, 5, 4>>, <<5, 0, 10, 8>> >> }

\* The desktop of the runs in which the window is not moved or resized.
HomeDesktop == << <<0, 0, 10, 8>> >>

\* Where the user can move the window's top-left corner to, and the sizes
\* the user can give the window.
MoveTargets == {<<-1, 0>>, <<0, -1>>, <<1, 1>>, <<3, 2>>, <<6, 1>>}
ResizeTargets == {<<2, 2>>, <<4, 3>>, <<7, 3>>, <<4, 6>>, <<12, 9>>}

\* The geometry of a top-level widget as constructed (Qt: 640 x 480 at 0, 0).
QWidgetDefaultGeometry == <<0, 0, 4, 3>>

\* ------------------------------------------------------------- constants
\* Entries of the delay combo box: range(1, 6) gives indices 0..4.
DelayChoices == 5
\* Default slide delay in milliseconds when the config has none.
DefaultDelay == 4000
\* Interval of the single-shot slider debounce timer, in milliseconds.
SliderDebounce == 500
\* Upper end of a freshly constructed QSlider's range (Qt's default 0..99).
QSliderDefaultMaximum == 99

Min(a, b) == IF a < b THEN a ELSE b
Max(a, b) == IF a > b THEN a ELSE b

\* The remainder of a language whose % truncates towards zero.
PyMod_truncating(a, n) == IF a >= 0 THEN a % n ELSE -((-a) % n)

\* Python's % for a positive divisor: the result has the divisor's sign.
PyMod(a, n) == IF a >= 0 THEN a % n ELSE (n - ((-a) % n)) % n

\* The one element of a one-element set: Only({e(s) : s \in {self}}) is e of
\* the object self, looked at once.
Only(S) == CHOOSE x \in S : TRUE

\* dict.get(key, default) on a dict modelled as a function on its keys.
Get(d, k, default) == IF k \in DOMAIN d THEN d[k] ELSE default

\* The empty dict, as load_config returns it when there is no config file.
EmptyDict == [k \in {} |-> 0]

VARIABLES
    \* fields of ImageViewer
    images,               \* list of paths <<folder, k>>
    current_image,        \* index into images
    slideshow_running,
    slideshow_direction,
    slide_delay,
    last_folder,          \* "" when there is none
    timer,                \* [active, interval]: the repeating playback timer
    slider_timer,         \* [active, interval]: the single-shot debounce timer
    slide_slider,         \* [maximum, value, down]; the minimum is always 0
    delay_combo,          \* current index of the combo box
    dir_label, file_label, slide_number_label, direction_label,
    image_label,          \* the path whose pixmap is displayed, <<>> if none
    start_stop_button,    \* its text
    geometry,             \* <<x(), y(), width(), height()>> of the window
    desktop,              \* the screens' rectangles, as QDesktopWidget has them
    \* environment
    config_file,          \* content of image_viewer_config.json, a dict
    visible,              \* viewer.show() has been called
    show_pending,         \* showEvent's QTimer.singleShot is pending
    \* history
    lastOp,               \* the event that was handled last
    pre,                  \* the list, index, direction, running before it
    run_start, run_len,   \* index at the start of the current run of
                          \* forward advances, and the run's length
    drag_pos,             \* where the held slider handle was last dragged
                          \* to, -1 if nowhere
    drag_ticked,          \* the playback timer fired while it was held
    startup,              \* the last startup's saved rectangle, screen and
                          \* the rectangle validate_and_set_geometry set
    ticks, seen           \* playback ticks counted, up to the list's length,
                          \* and the indices they made current

self_vars == <<images, current_image, slideshow_running, slideshow_direction,
               slide_delay, last_folder, timer, slider_timer, slide_slider,
               delay_combo, dir_label, file_label, slide_number_label,
               direction_label, image_label, start_stop_button, geometry,
               desktop, config_file, show_pending>>

vars == <<self_vars, visible, lastOp, pre, run_start, run_len, drag_pos,
          drag_ticked, startup, ticks, seen>>

\* The object (and the file it writes) as one record.
Self == [images |-> images, current_image |-> current_image,
         slideshow_running |-> slideshow_running,
         slideshow_direction |-> slideshow_direction,
         slide_delay |-> slide_delay, last_folder |-> last_folder,
         timer |-> timer, slider_timer |-> slider_timer,
         slide_slider |-> slide_slider, delay_combo |-> delay_combo,
         dir_label |-> dir_label, file_label |-> file_label,
         slide_number_label |-> slide_number_label,
         direction_label |-> direction_label, image_label |-> image_label,
         start_stop_button |-> start_stop_button,
         geometry |-> geometry, desktop |-> desktop,
         config_file |-> config_file, show_pending |-> show_pending]

\* The state after a handler: every field takes its value from record s.
Becomes(s) ==
    /\ images' = s.images
    /\ current_image' = s.current_image
    /\ slideshow_running' = s.slideshow_running
    /\ slideshow_direction' = s.slideshow_direction
    /\ slide_delay' = s.slide_delay
    /\ last_folder' = s.last_folder
    /\ timer' = s.timer
    /\ slider_timer' = s.slider_timer
    /\ slide_slider' = s.slide_slider
    /\ delay_combo' = s.delay_combo
    /\ dir_label' = s.dir_label
    /\ file_label' = s.file_label
    /\ slide_number_label' = s.slide_number_label
    /\ direction_label' = s.direction_label
    /\ image_label' = s.image_label
    /\ start_stop_button' = s.start_stop_button
    /\ geometry' = s.geometry
    /\ desktop' = s.desktop
    /\ config_file' = s.config_file
    /\ show_pending' = s.show_pending

\* ------------------------------------------------------------ QTimer
QTimer_start(t, msec) == [active |-> TRUE, interval |-> msec]
QTimer_stop(t) == [t EXCEPT !.active = FALSE]

\* ------------------------------------------------------ QDesktopWidget
\* The area two rectangles share.
IntersectedArea(a, b) ==
    Max(0, Min(a[1] + a[3], b[1] + b[3]) - Max(a[1], b[1]))
    * Max(0, Min(a[2] + a[4], b[2] + b[4]) - Max(a[2], b[2]))

\* QDesktopWidget.screenNumber(widget): the first screen sharing the largest
\* area with the widget's rectangle, -1 when no screen shares any.
QDesktopWidget_screenNumber(d, rect) ==
    LET area == [i \in 1..Len(d) |-> IntersectedArea(d[i], rect)]
        best == {i \in 1..Len(d) :
                    /\ area[i] > 0
                    /\ \A j \in 1..Len(d) :
                           area[j] < area[i] \/ (area[j] = area[i] /\ i <= j)}
    IN  IF best = {} THEN -1 ELSE (CHOOSE i \in best : TRUE) - 1

\* QDesktopWidget.screenGeometry(screen): the primary screen's rectangle
\* for a number that names no screen.
QDesktopWidget_screenGeometry(d, screen) ==
    IF 0 <= screen /\ screen < Len(d) THEN d[screen + 1] ELSE d[1]

\* ------------------------------------------------------- config store
save_config(self) ==
    Only({
        [s EXCEPT !.config_file =
            [k \in {"last_folder", "window_geometry", "current_slide",
                    "slide_direction", "slide_delay", "screen_number"} |->
                CASE k = "last_folder" -> s.last_folder
                  [] k = "window_geometry" -> s.geometry
                  [] k = "current_slide" -> s.current_image
                  [] k = "slide_direction" -> s.slideshow_direction
                  [] k = "slide_delay" -> s.slide_delay
                  [] k = "screen_number" ->
                         QDesktopWidget_screenNumber(s.desktop, s.geometry)]]
        : s \in {self} })

load_config(file) == file

\* ------------------------------------------------------------- labels
update_dir_label(s) ==
    IF s.images # <<>>
    THEN [s EXCEPT !.dir_label = <<"Current Directory: ", s.images[1][1]>>]
    ELSE [s EXCEPT !.dir_label = <<"No directory selected">>]

update_file_label(s, image_path) ==
    [s EXCEPT !.file_label = <<"Current Image: ", image_path[2]>>]

update_slide_number_label(self) ==
    Only({
        IF s.images # <<>>
        THEN [s EXCEPT !.slide_number_label =
                  <<"Slide: ", s.current_image + 1, Len(s.images)>>]
        ELSE [s EXCEPT !.slide_number_label = <<"No images loaded">>]
        : s \in {self} })

update_direction_label(self) ==
    Only({
        [s EXCEPT !.direction_label =
            IF s.slideshow_direction = 1 THEN "Direction: Forward"
                                         ELSE "Direction: Backward"]
        : s \in {self} })

\* ------------------------------------------------------------- slider
slider_moved(s, value) ==
    [s EXCEPT !.slider_timer = QTimer_start(QTimer_stop(@), SliderDebounce)]

\* QSlider.setValue: the value is clamped to the range; a change made while
\* the handle is held emits sliderMoved, which is connected to slider_moved.
QSlider_setValue(self, value) ==
    Only({
        LET v == Max(0, Min(value, s.slide_slider.maximum))
            s1 == [s EXCEPT !.slide_slider.value = v]
        IN  IF v = s.slide_slider.value THEN s
            ELSE IF s.slide_slider.down THEN slider_moved(s1, v) ELSE s1
        : s \in {self} })

\* QSlider.setRange(lo, hi): sets the range and re-clamps the value.
QSlider_setRange(s, lo, hi) ==
    LET s1 == [s EXCEPT !.slide_slider.maximum = Max(lo, hi)]
    IN  IF s1.slide_slider.maximum = s.slide_slider.maximum THEN s
        ELSE QSlider_setValue(s1, s1.slide_slider.value)

\* ------------------------------------------------------------ display
\* Every listed file is taken to be one the image library can open.
show_image(self, image_path) ==
    Only({
        update_slide_number_label(
            update_file_label([s EXCEPT !.image_label = image_path], image_path))
        : s \in {self} })

\* show_current_image leaving the slider where it is.
show_current_image_no_slider(s) ==
    IF s.images # <<>> /\ 0 <= s.current_image /\ s.current_image < Len(s.images)
    THEN show_image(s, s.images[s.current_image + 1])
    ELSE s

show_current_image(self) ==
    Only({
        IF s.images # <<>> /\ 0 <= s.current_image /\ s.current_image < Len(s.images)
        THEN QSlider_setValue(show_image(s, s.images[s.current_image + 1]),
                              s.current_image)
        ELSE s
        : s \in {self} })

update_image_display(s) ==
    IF s.images # <<>> /\ 0 <= s.current_image /\ s.current_image < Len(s.images)
    THEN show_current_image(s)
    ELSE s

\* ------------------------------------------------ slide state machine
\* advance_slideshow stopping at the ends of the list instead of wrapping.
advance_slideshow_saturating(s) ==
    LET s1 == IF s.images # <<>>
              THEN show_current_image(
                     [s EXCEPT !.current_image =
                         Max(0, Min(s.current_image + s.slideshow_direction,
                                    Len(s.images) - 1))])
              ELSE s
    IN  save_config(update_direction_label(s1))

advance_slideshow(self) ==
    Only({
        LET s1 == IF s.images # <<>>
                  THEN show_current_image(
                         [s EXCEPT !.current_image =
                             PyMod(s.current_image + s.slideshow_direction,
                                   Len(s.images))])
                  ELSE s
        IN  save_config(update_direction_label(s1))
        : s \in {self} })

\* show_next_image leaving the direction as it is.
show_next_image_keeps_direction(s) ==
    IF s.images # <<>> THEN advance_slideshow(s) ELSE s

\* show_next_image without its test for an empty list.
show_next_image_unguarded(s) ==
    advance_slideshow([s EXCEPT !.slideshow_direction = 1])

show_next_image(s) ==
    IF s.images # <<>>
    THEN advance_slideshow([s EXCEPT !.slideshow_direction = 1])
    ELSE s

show_previous_image(s) ==
    IF s.images # <<>>
    THEN advance_slideshow([s EXCEPT !.slideshow_direction = -1])
    ELSE s

\* ----------------------------------------------------- playback timer
\* toggle_slideshow starting from the first slide.
toggle_slideshow_rewinds(s) ==
    IF s.slideshow_running
    THEN [s EXCEPT !.timer = QTimer_stop(@),
                   !.start_stop_button = "Start Slideshow",
                   !.slideshow_running = FALSE]
    ELSE IF s.images # <<>>
         THEN [s EXCEPT !.timer = QTimer_start(@, s.slide_delay),
                        !.start_stop_button = "Stop Slideshow",
                        !.slideshow_running = TRUE,
                        !.current_image = 0]
         ELSE s

\* toggle_slideshow starting the timer whatever the list holds.
toggle_slideshow_unguarded(s) ==
    IF s.slideshow_running
    THEN [s EXCEPT !.timer = QTimer_stop(@),
                   !.start_stop_button = "Start Slideshow",
                   !.slideshow_running = FALSE]
    ELSE [s EXCEPT !.timer = QTimer_start(@, s.slide_delay),
                   !.start_stop_button = "Stop Slideshow",
                   !.slideshow_running = TRUE]

toggle_slideshow(s) ==
    IF s.slideshow_running
    THEN [s EXCEPT !.timer = QTimer_stop(@),
                   !.start_stop_button = "Start Slideshow",
                   !.slideshow_running = FALSE]
    ELSE IF s.images # <<>>
         THEN [s EXCEPT !.timer = QTimer_start(@, s.slide_delay),
                        !.start_stop_button = "Stop Slideshow",
                        !.slideshow_running = TRUE]
         ELSE s

\* change_slide_delay restarting the timer whether or not it runs.
change_slide_delay_always_starts(s, index) ==
    LET s1 == [s EXCEPT !.slide_delay = (index + 1) * 1000]
    IN  save_config([s1 EXCEPT !.timer =
                        QTimer_start(QTimer_stop(@), s1.slide_delay)])

\* change_slide_delay leaving a running timer with its old interval.
change_slide_delay_no_restart(s, index) ==
    save_config([s EXCEPT !.slide_delay = (index + 1) * 1000])

change_slide_delay(s, index) ==
    LET s1 == [s EXCEPT !.slide_delay = (index + 1) * 1000]
        s2 == IF s1.slideshow_running
              THEN [s1 EXCEPT !.timer =
                        QTimer_start(QTimer_stop(@), s1.slide_delay)]
              ELSE s1
    IN  save_config(s2)

\* QComboBox.setCurrentIndex: currentIndexChanged, connected to
\* change_slide_delay, is emitted only when the index changes.
QComboBox_setCurrentIndex(s, index) ==
    IF index = s.delay_combo THEN s
    ELSE change_slide_delay([s EXCEPT !.delay_combo = index], index)

\* ---------------------------------------------------- slider debounce
\* update_image_after_slider without its save_config.
update_image_after_slider_unsaved(s) ==
    IF s.images # <<>>
    THEN LET new_index == s.slide_slider.value
         IN  IF new_index # s.current_image
             THEN show_current_image([s EXCEPT !.current_image = new_index])
             ELSE s
    ELSE s

update_image_after_slider(s) ==
    IF s.images # <<>>
    THEN LET new_index == s.slide_slider.value
         IN  IF new_index # s.current_image
             THEN save_config(show_current_image(
                                 [s EXCEPT !.current_image = new_index]))
             ELSE s
    ELSE s

\* slider_released leaving the debounce timer pending.
slider_released_keeps_timer(s) == update_image_after_slider(s)

slider_released(s) ==
    update_image_after_slider([s EXCEPT !.slider_timer = QTimer_stop(@)])

\* ------------------------------------------------------ image loader
\* The files of folder that os.listdir returns and the extension filter
\* keeps, n of them.
Listing(folder, n) == [k \in 1..n |-> <<folder, k>>]

\* load_images keeping the index whatever the new list's length.
load_images_unclamped(s, folder, n) ==
    LET s1 == [s EXCEPT !.images = Listing(folder, n)]
        s2 == IF s1.images # <<>>
              THEN LET b == QSlider_setRange(s1, 0, Len(s1.images) - 1)
                       c == QSlider_setValue(b, b.current_image)
                   IN  show_current_image(c)
              ELSE QSlider_setRange(s1, 0, 0)
    IN  update_dir_label(s2)

load_images(s, folder, n) ==
    LET s1 == [s EXCEPT !.images = Listing(folder, n)]
        s2 == IF s1.images # <<>>
              THEN LET a == [s1 EXCEPT !.current_image =
                                Min(s1.current_image, Len(s1.images) - 1)]
                       b == QSlider_setRange(a, 0, Len(a.images) - 1)
                       c == QSlider_setValue(b, b.current_image)
                   IN  show_current_image(c)
              ELSE QSlider_setRange(s1, 0, 0)
    IN  update_dir_label(s2)

select_folder(s, folder, n) ==
    IF folder # ""
    THEN save_config([load_images(s, folder, n) EXCEPT !.last_folder = folder])
    ELSE s

\* ------------------------------------------------------ window events
resizeEvent(s) == save_config(update_image_display(s))

moveEvent(s) == save_config(s)

showEvent(s) ==
    IF s.images # <<>> /\ 0 <= s.current_image /\ s.current_image < Len(s.images)
    THEN [s EXCEPT !.show_pending = TRUE]
    ELSE s

\* ---------------------------------------------------- window geometry
\* int(x * 0.8) for x >= 0.
FourFifths(x) == (x * 8) \div 10

\* set_default_geometry: the rectangle set, on desktop d.
set_default_geometry(d) ==
    LET screen == QDesktopWidget_screenGeometry(d, -1)
        width == FourFifths(screen[3])
        height == FourFifths(screen[4])
    IN  <<(screen[3] - width) \div 2, (screen[4] - height) \div 2,
          width, height>>

\* validate_and_set_geometry centering a rectangle that does not fit
\* without clamping its size.
validate_and_set_geometry_unclamped(d, config) ==
    IF "window_geometry" \in DOMAIN config
    THEN LET g == config["window_geometry"]
             screen == QDesktopWidget_screenNumber(d, QWidgetDefaultGeometry)
             screen_geometry == QDesktopWidget_screenGeometry(d, screen)
         IN  IF \/ g[1] < 0
                \/ g[2] < 0
                \/ g[1] + g[3] > screen_geometry[3]
                \/ g[2] + g[4] > screen_geometry[4]
             THEN <<(screen_geometry[3] - g[3]) \div 2,
                    (screen_geometry[4] - g[4]) \div 2, g[3], g[4]>>
             ELSE g
    ELSE set_default_geometry(d)

\* validate_and_set_geometry: the rectangle set, for the window as
\* constructed on desktop d.
validate_and_set_geometry(d, config) ==
    IF "window_geometry" \in DOMAIN config
    THEN LET g == config["window_geometry"]
             screen == QDesktopWidget_screenNumber(d, QWidgetDefaultGeometry)
             screen_geometry == QDesktopWidget_screenGeometry(d, screen)
         IN  IF \/ g[1] < 0
                \/ g[2] < 0
                \/ g[1] + g[3] > screen_geometry[3]
                \/ g[2] + g[4] > screen_geometry[4]
             THEN LET width == Min(g[3], screen_geometry[3])
                      height == Min(g[4], screen_geometry[4])
                  IN  <<(screen_geometry[3] - width) \div 2,
                        (screen_geometry[4] - height) \div 2, width, height>>
             ELSE g
    ELSE set_default_geometry(d)

move_to_saved_screen(s, config) ==
    LET screen_number == Get(config, "screen_number", 0)
    IN  IF screen_number < Len(s.desktop)
        THEN LET screen_geometry ==
                     QDesktopWidget_screenGeometry(s.desktop, screen_number)
             IN  [s EXCEPT !.geometry =
                     <<screen_geometry[1], screen_geometry[2], @[3], @[4]>>]
        ELSE s

\* -------------------------------------------------------- construction
\* setup_ui: the widgets as constructed, in window win.
setup_ui(win) ==
    [geometry |-> win.geometry, desktop |-> win.desktop,
     dir_label |-> <<>>, file_label |-> <<>>, slide_number_label |-> <<>>,
     direction_label |-> "", image_label |-> <<>>,
     start_stop_button |-> "Start Slideshow",
     delay_combo |-> 0,
     slide_slider |-> [maximum |-> QSliderDefaultMaximum, value |-> 0,
                       down |-> FALSE]]

\* setup_timers, on the widgets w of setup_ui.
setup_timers(w, config, folder, file) ==
    LET s == [images |-> <<>>,
              current_image |-> Get(config, "current_slide", 0),
              timer |-> [active |-> FALSE, interval |-> 0],
              slideshow_running |-> FALSE,
              slideshow_direction |-> Get(config, "slide_direction", 1),
              slide_delay |-> Get(config, "slide_delay", DefaultDelay),
              slider_timer |-> [active |-> FALSE, interval |-> 0],
              last_folder |-> folder,
              slide_slider |-> w.slide_slider, delay_combo |-> w.delay_combo,
              dir_label |-> w.dir_label, file_label |-> w.file_label,
              slide_number_label |-> w.slide_number_label,
              direction_label |-> w.direction_label,
              image_label |-> w.image_label,
              start_stop_button |-> w.start_stop_button,
              geometry |-> w.geometry, desktop |-> w.desktop,
              config_file |-> file, show_pending |-> FALSE]
    IN  QComboBox_setCurrentIndex(s, (s.slide_delay \div 1000) - 1)

\* __init__ with the config file's content, the desktop's screens, whether
\* last_folder is still a directory, and the number of matching files it
\* holds.
ImageViewer_init(file, d, isdir, n) ==
    LET config == load_config(file)
        folder == Get(config, "last_folder", "")
        win == [desktop |-> d, geometry |-> validate_and_set_geometry(d, config)]
        s1 == setup_timers(setup_ui(win), config, folder, file)
        s2 == IF folder # "" /\ isdir THEN load_images(s1, folder, n) ELSE s1
    IN  move_to_saved_screen(update_direction_label(s2), config)

\* viewer.show(): the pending move and resize events, then the show event.
show(s) == showEvent(resizeEvent(moveEvent(s)))

\* ------------------------------------------------------------ history
Before == [images |-> images, index |-> current_image,
           direction |-> slideshow_direction, running |-> slideshow_running]

\* A forward advance: next, or a tick while the direction is +1.
IsForwardAdvance(op, s) ==
    /\ op \in {"next", "tick"}
    /\ images # <<>>
    /\ s.slideshow_direction = 1

\* What a startup that reads config on desktop d did about the window: the
\* saved rectangle (<<>> if none), the screen it was validated against and
\* the rectangle validate_and_set_geometry set.
StartupOf(config, d) ==
    [saved |-> Get(config, "window_geometry", <<>>),
     screen |-> QDesktopWidget_screenGeometry(
                    d, QDesktopWidget_screenNumber(d, QWidgetDefaultGeometry)),
     out |-> validate_and_set_geometry(d, config)]

\* No startup is the last event.
NoStartup == [saved |-> <<>>, screen |-> <<>>, out |-> <<>>]

Startups == {"init", "init_load"}

\* What is remembered of event op, which leaves the object as s.
Recorded(op, s) ==
    /\ lastOp' = op
    /\ pre' = Before
    /\ IF IsForwardAdvance(op, s)
       THEN IF run_len < Len(images)
            THEN run_len' = run_len + 1 /\ run_start' = run_start
            ELSE run_len' = 1 /\ run_start' = current_image
       ELSE run_len' = 0 /\ run_start' = s.current_image
    /\ drag_pos' = CASE op = "drag" -> s.slide_slider.value
                     [] op = "release" -> drag_pos
                     [] op \notin {"drag", "release"} /\ s.slide_slider.down
                            /\ slide_slider.down -> drag_pos
                     [] OTHER -> -1
    /\ drag_ticked' = CASE op = "tick" /\ slide_slider.down -> TRUE
                        [] op = "release" -> drag_ticked
                        [] op \notin {"tick", "release"} /\ s.slide_slider.down
                               /\ slide_slider.down -> drag_ticked
                        [] OTHER -> FALSE
    /\ startup' = IF op \in Startups
                  THEN StartupOf(load_config(config_file), s.desktop)
                  ELSE NoStartup
    /\ IF op = "tick" /\ images # <<>>
       THEN /\ ticks' = Min(ticks + 1, Len(images))
            /\ seen' = IF ticks < Len(images)
                       THEN seen \cup {s.current_image} ELSE seen
       ELSE ticks' = 0 /\ seen' = {}

\* Event op is handled and leaves the object as record self says.
Handle(op, self) ==
    \E s \in {self} : Becomes(s) /\ Recorded(op, s)

\* ------------------------------------------------------------ actions
\* The object is as record s says.
StateIs(s) ==
    /\ images = s.images
    /\ current_image = s.current_image
    /\ slideshow_running = s.slideshow_running
    /\ slideshow_direction = s.slideshow_direction
    /\ slide_delay = s.slide_delay
    /\ last_folder = s.last_folder
    /\ timer = s.timer
    /\ slider_timer = s.slider_timer
    /\ slide_slider = s.slide_slider
    /\ delay_combo = s.delay_combo
    /\ dir_label = s.dir_label
    /\ file_label = s.file_label
    /\ slide_number_label = s.slide_number_label
    /\ direction_label = s.direction_label
    /\ image_label = s.image_label
    /\ start_stop_button = s.start_stop_button
    /\ geometry = s.geometry
    /\ desktop = s.desktop
    /\ config_file = s.config_file
    /\ show_pending = s.show_pending

\* The program has just been constructed as s, from the config file file.
Starts(s, file) ==
    /\ StateIs(s)
    /\ visible = FALSE
    /\ lastOp = "init"
    /\ pre = [images |-> <<>>, index |-> 0, direction |-> 1,
              running |-> FALSE]
    /\ run_start = 0
    /\ run_len = 0
    /\ drag_pos = -1
    /\ drag_ticked = FALSE
    /\ startup = StartupOf(load_config(file), s.desktop)
    /\ ticks = 0
    /\ seen = {}

\* The program is started with no config file on disk.
Init == Starts(ImageViewer_init(EmptyDict, HomeDesktop, FALSE, 0), EmptyDict)

\* The process ends and the program is started again: __init__ reads the
\* config file the previous run wrote.
main_restart ==
    /\ visible
    /\ \/ Handle("init", ImageViewer_init(config_file, desktop, FALSE, 0))
       \/ /\ Get(config_file, "last_folder", "") # ""
          /\ \E n \in 0..MaxImages :
                 Handle("init_load",
                        ImageViewer_init(config_file, desktop, TRUE, n))
    /\ visible' = FALSE

\* viewer.show(), then the event loop runs.
main_show ==
    /\ ~visible
    /\ Handle("show", show(Self))
    /\ visible' = TRUE

\* The buttons can be clicked while the mouse does not hold the slider.
CanClick == visible /\ ~slide_slider.down

\* "Select Folder": the dialog returns a folder ("" when cancelled), whose
\* listing holds n matching files.
click_select_folder ==
    /\ CanClick
    /\ \/ Handle("select_cancel", select_folder(Self, "", 0))
       \/ \E folder \in Folders, n \in 0..MaxImages :
              Handle("select_folder", select_folder(Self, folder, n))
    /\ UNCHANGED visible

click_previous ==
    /\ CanClick
    /\ Handle("previous", show_previous_image(Self))
    /\ UNCHANGED visible

click_next ==
    /\ CanClick
    /\ Handle("next", show_next_image(Self))
    /\ UNCHANGED visible

click_start_stop ==
    /\ CanClick
    /\ Handle("toggle", toggle_slideshow(Self))
    /\ UNCHANGED visible

\* The user picks another entry of the delay combo box.
choose_delay ==
    /\ CanClick
    /\ \E index \in DelayInputs \cap 0..(DelayChoices - 1) :
           /\ index # delay_combo
           /\ Handle("delay", QComboBox_setCurrentIndex(Self, index))
    /\ UNCHANGED visible

\* The playback timer fires.
timer_timeout ==
    /\ visible
    /\ timer.active
    /\ Handle("tick", advance_slideshow(Self))
    /\ UNCHANGED visible

\* The single-shot debounce timer fires.
slider_timer_timeout ==
    /\ visible
    /\ slider_timer.active
    /\ Handle("debounce",
              update_image_after_slider(
                  [Self EXCEPT !.slider_timer = QTimer_stop(@)]))
    /\ UNCHANGED visible

\* The mouse takes hold of the slider's handle (sliderPressed is not
\* connected).
slider_press ==
    /\ visible
    /\ ~slide_slider.down
    /\ Handle("press", [Self EXCEPT !.slide_slider.down = TRUE])
    /\ UNCHANGED visible

\* QSlider.setSliderPosition while the handle is held: sliderMoved is
\* emitted and, tracking being on, the value follows the position.
QSlider_drag(s, position) ==
    slider_moved([s EXCEPT !.slide_slider.value = position], position)

slider_drag ==
    /\ visible
    /\ slide_slider.down
    /\ \E position \in 0..Min(slide_slider.maximum, MaxImages) :
           /\ position # slide_slider.value
           /\ Handle("drag", QSlider_drag(Self, position))
    /\ UNCHANGED visible

\* The mouse lets go of the handle: sliderReleased.
slider_release ==
    /\ visible
    /\ slide_slider.down
    /\ Handle("release",
              slider_released([Self EXCEPT !.slide_slider.down = FALSE]))
    /\ UNCHANGED visible

window_resize ==
    /\ visible
    /\ Handle("resize", resizeEvent(Self))
    /\ UNCHANGED visible

window_move ==
    /\ visible
    /\ Handle("move", moveEvent(Self))
    /\ UNCHANGED visible

\* The single-shot timer of showEvent fires show_current_image.
singleShot_timeout ==
    /\ visible
    /\ show_pending
    /\ Handle("singleShot",
              show_current_image([Self EXCEPT !.show_pending = FALSE]))
    /\ UNCHANGED visible

Next ==
    \/ main_restart
    \/ main_show
    \/ click_select_folder
    \/ click_previous
    \/ click_next
    \/ click_start_stop
    \/ choose_delay
    \/ timer_timeout
    \/ slider_timer_timeout
    \/ slider_press
    \/ slider_drag
    \/ slider_release
    \/ window_resize
    \/ window_move
    \/ singleShot_timeout

Spec == Init /\ [][Next]_vars

\* ------------------------------------------- runs that move the window
\* The program is started with no config file, on any of the desktops.
GeomInit ==
    \E d \in ScreenLayouts :
        Starts(ImageViewer_init(EmptyDict, d, FALSE, 0), EmptyDict)

\* The program is started again, on a desktop that may have changed.
geom_restart ==
    /\ visible
    /\ \E d \in ScreenLayouts :
           Handle("init", ImageViewer_init(config_file, d, FALSE, 0))
    /\ visible' = FALSE

\* The user moves the window: moveEvent at its new position.
geom_move ==
    /\ visible
    /\ \E p \in MoveTargets :
           /\ p # <<geometry[1], geometry[2]>>
           /\ Handle("move",
                     moveEvent([Self EXCEPT !.geometry =
                                   <<p[1], p[2], @[3], @[4]>>]))
    /\ UNCHANGED visible

\* The user resizes the window: resizeEvent at its new size.
geom_resize ==
    /\ visible
    /\ \E size \in ResizeTargets :
           /\ size # <<geometry[3], geometry[4]>>
           /\ Handle("resize",
                     resizeEvent([Self EXCEPT !.geometry =
                                     <<@[1], @[2], size[1], size[2]>>]))
    /\ UNCHANGED visible

GeomNext ==
    \/ geom_restart
    \/ main_show
    \/ geom_move
    \/ geom_resize

GeomSpec == GeomInit /\ [][GeomNext]_vars

\* ------------------------------------- runs in which only the timer acts
RECURSIVE Clicks(_, _, _)
\* k clicks on "Next" (d = 1) or on "Previous" (d = -1).
Clicks(s, d, k) ==
    IF k = 0 THEN s
    ELSE Clicks(IF d = 1 THEN show_next_image(s) ELSE show_previous_image(s),
                d, k - 1)

\* The slideshow has just been started: the program was started and shown,
\* a folder with n >= 1 images selected, a delay picked, Next or Previous
\* clicked up to n times and then "Start Slideshow".
PlayInit ==
    \E folder \in Folders, n \in 1..MaxImages, index \in DelayInputs,
       d \in {1, -1} :
        \E k \in 0..n :
            LET s0 == show(ImageViewer_init(EmptyDict, HomeDesktop, FALSE, 0))
                s1 == select_folder(s0, folder, n)
                s2 == QComboBox_setCurrentIndex(s1, index)
                s3 == Clicks(s2, d, k)
            IN  /\ StateIs(toggle_slideshow(s3))
                /\ visible = TRUE
                /\ lastOp = "toggle"
                /\ pre = [images |-> s3.images, index |-> s3.current_image,
                          direction |-> s3.slideshow_direction,
                          running |-> FALSE]
                /\ run_start = s3.current_image
                /\ run_len = 0
                /\ drag_pos = -1
                /\ drag_ticked = FALSE
                /\ startup = NoStartup
                /\ ticks = 0
                /\ seen = {}

PlayNext == timer_timeout

\* The repeating QTimer fires again and again while the event loop runs.
PlaySpec == PlayInit /\ [][PlayNext]_vars /\ WF_vars(timer_timeout)

\* ------------------------------------------------------------- claims
Advances == {"next", "previous", "tick"}

\* One step from index i in direction d (+1 or -1) over n slides, wrapping.
WrapStep(i, d, n) ==
    IF i + d > n - 1 THEN 0 ELSE IF i + d < 0 THEN n - 1 ELSE i + d

\* C1: with N >= 1 images, every advance (next, previous or a timer tick)
\* sets the index to (index + direction) mod N, wrapping in both directions,
\* where direction is +1 or -1 and the list is left as it was.
C1_AdvanceWraps ==
    (lastOp \in Advances /\ pre.images # <<>>) =>
        /\ images = pre.images
        /\ slideshow_direction \in {1, -1}
        /\ current_image =
               WrapStep(pre.index, slideshow_direction, Len(pre.images))

\* The spec's example: three images, direction -1, index 0, then index 2.
C1_Witness ==
    /\ lastOp = "previous"
    /\ Len(pre.images) = 3
    /\ pre.index = 0
    /\ current_image = 2

\* C2: whenever the list holds N >= 1 images, 0 <= index <= N-1.
C2_IndexInRange ==
    images # <<>> => (0 <= current_image /\ current_image <= Len(images) - 1)

\* At startup the config's index is beyond the end of the folder's list,
\* which shrank since the index was saved.
C2_Witness ==
    /\ lastOp = "init_load"
    /\ images # <<>>
    /\ Get(config_file, "current_slide", 0) > Len(images) - 1

\* C3 as stated: in any state, next leaves the direction +1, previous
\* leaves it -1, and a timer tick leaves it as it was.
C3_DirectionInAnyState ==
    /\ lastOp = "next" => slideshow_direction = 1
    /\ lastOp = "previous" => slideshow_direction = -1
    /\ lastOp = "tick" => slideshow_direction = pre.direction

\* C3, amended: with a non-empty list, next leaves the direction +1 and
\* previous leaves it -1; with an empty list both leave it as it was; a
\* timer tick never changes it.
C3_Direction ==
    /\ lastOp = "next" =>
           slideshow_direction = IF pre.images # <<>> THEN 1 ELSE pre.direction
    /\ lastOp = "previous" =>
           slideshow_direction = IF pre.images # <<>> THEN -1 ELSE pre.direction
    /\ lastOp = "tick" => slideshow_direction = pre.direction

\* Next has turned a backward slideshow forward.
C3_Witness ==
    /\ lastOp = "next"
    /\ pre.images # <<>>
    /\ pre.direction = -1
    /\ slideshow_direction = 1

\* C4: the slideshow runs only on a non-empty list.
C4_RunningImpliesImages ==
    slideshow_running => images # <<>>

\* C5: a delay change while the slideshow runs leaves the index, the
\* direction, the list and the running flag as they were, and the playback
\* timer active with the chosen delay as its interval.
C5_DelayChangeWhileRunning ==
    (lastOp = "delay" /\ pre.running) =>
        /\ current_image = pre.index
        /\ slideshow_direction = pre.direction
        /\ images = pre.images
        /\ slideshow_running
        /\ timer.active
        /\ timer.interval = (delay_combo + 1) * 1000
        /\ slide_delay = (delay_combo + 1) * 1000

\* The delay of a running slideshow, past its first slide, was changed.
C5_Witness ==
    /\ lastOp = "delay"
    /\ pre.running
    /\ pre.index > 0
    /\ timer.interval = 1000

\* C6: a start request while stopped with an empty list changes nothing:
\* the slideshow stays stopped, the timer inactive, the button's text
\* "Start Slideshow", and every other field as it was.
C6_StartRejected ==
    [][(lastOp' = "toggle" /\ ~slideshow_running /\ images = <<>>) =>
          /\ UNCHANGED self_vars
          /\ ~slideshow_running'
          /\ ~timer'.active
          /\ start_stop_button' = "Start Slideshow"]_vars

\* Start was clicked while stopped with an empty list.
C6_Witness ==
    /\ lastOp = "toggle"
    /\ ~pre.running
    /\ pre.images = <<>>
    /\ ~slideshow_running
    /\ start_stop_button = "Start Slideshow"

\* C7: after a folder with zero matching files is loaded, the index is 0.
C7_EmptyLoadIndexZero ==
    (lastOp \in {"select_folder", "init_load"} /\ images = <<>>) =>
        current_image = 0

\* C8: with an empty list, next, previous and a timer tick leave the index,
\* the direction and the list as they were.
C8_EmptyAdvanceNoOp ==
    (lastOp \in Advances /\ pre.images = <<>>) =>
        /\ current_image = pre.index
        /\ slideshow_direction = pre.direction
        /\ images = <<>>

\* Next was clicked on an empty list while the direction was backward.
C8_Witness ==
    /\ lastOp = "next"
    /\ pre.images = <<>>
    /\ pre.direction = -1

\* C9: whenever the list is empty, no image, file name or slide number is
\* displayed.
C9_EmptyDisplay ==
    images = <<>> =>
        /\ Len(image_label) = 0
        /\ Len(file_label) = 0
        /\ Len(slide_number_label) <= 1

\* C10: N consecutive forward advances over N >= 1 images bring the index
\* back to where the run started.
C10_FullCycle ==
    (images # <<>> /\ run_len = Len(images)) => current_image = run_start

\* Three forward advances over three images, started in the middle.
C10_Witness ==
    /\ Len(images) = 3
    /\ run_len = 3
    /\ run_start = 1

\* Rectangle r lies within rectangle screen.
Within(r, screen) ==
    /\ screen[1] <= r[1]
    /\ r[1] + r[3] <= screen[1] + screen[3]
    /\ screen[2] <= r[2]
    /\ r[2] + r[4] <= screen[2] + screen[4]

\* The margins rectangle r leaves on either side of screen differ by at
\* most one unit, the larger one right and below.
Centered(r, screen) ==
    /\ (screen[1] + screen[3] - (r[1] + r[3])) - (r[1] - screen[1]) \in {0, 1}
    /\ (screen[2] + screen[4] - (r[2] + r[4])) - (r[2] - screen[2]) \in {0, 1}

\* C11: for every saved rectangle, the rectangle the reconciler sets lies
\* within the current screen's rectangle, and it is the window's placement
\* when startup finishes.
C11_StartupPlacement ==
    (lastOp \in Startups /\ startup.saved # <<>>) =>
        /\ Within(startup.out, startup.screen)
        /\ geometry = startup.out

\* C12: a saved rectangle fully inside the screen is set verbatim; one with
\* a negative origin or a far edge beyond the screen's width or height is
\* set with width min(saved width, screen width), height min(saved height,
\* screen height), centered on the screen.
C12_ReconcilerPolicy ==
    (lastOp \in Startups /\ startup.saved # <<>>) =>
        LET g == startup.saved
            screen == startup.screen
            out == startup.out
        IN  IF g[1] >= 0 /\ g[2] >= 0 /\ g[1] + g[3] <= screen[3]
               /\ g[2] + g[4] <= screen[4]
            THEN out = g
            ELSE /\ out[3] = Min(g[3], screen[3])
                 /\ out[4] = Min(g[4], screen[4])
                 /\ Centered(out, screen)

\* A window saved larger than the screen it is started on was clamped.
C12_Witness ==
    /\ lastOp \in Startups
    /\ startup.saved # <<>>
    /\ startup.saved[3] > startup.screen[3]
    /\ startup.out[3] = startup.screen[3]
    /\ startup.out[4] < startup.screen[4]

\* C13 as stated: a slider move re-arms the one single-shot 500 ms timer
\* and leaves the index alone; the timer, once fired, is no longer pending;
\* a release cancels it and sets the index to the slider's position.
C13_DebounceAnyList ==
    /\ lastOp = "drag" =>
           /\ slider_timer.active
           /\ slider_timer.interval = 500
           /\ current_image = pre.index
    /\ lastOp = "debounce" => ~slider_timer.active
    /\ lastOp = "release" =>
           /\ ~slider_timer.active
           /\ current_image = slide_slider.value

\* C13, amended: as stated, but a release sets the index to the slider's
\* position when the list is non-empty, and leaves the index as it was when
\* the list is empty.
C13_Debounce ==
    /\ lastOp = "drag" =>
           /\ slider_timer.active
           /\ slider_timer.interval = 500
           /\ current_image = pre.index
    /\ lastOp = "debounce" => ~slider_timer.active
    /\ lastOp = "release" =>
           /\ ~slider_timer.active
           /\ images # <<>> => current_image = slide_slider.value
           /\ images = <<>> => current_image = pre.index

\* The handle was dragged and released on another slide, which the release
\* made current.
C13_Witness ==
    /\ lastOp = "release"
    /\ images # <<>>
    /\ drag_pos # -1
    /\ pre.index # current_image
    /\ current_image = drag_pos
    /\ ~slider_timer.active

C15_RunningIffTimerActive ==
    slideshow_running <=> timer.active

\* The delay of a stopped slideshow was changed, and the timer stays off.
C15_Witness ==
    /\ lastOp = "delay"
    /\ ~pre.running
    /\ images # <<>>
    /\ ~timer.active

\* C16: when the playback timer fired while the handle was held, the
\* release sets the index to the position the handle was dragged to.
C16_ReleaseKeepsDraggedPosition ==
    (lastOp = "release" /\ images # <<>> /\ drag_pos # -1 /\ drag_ticked) =>
        current_image = drag_pos

\* C17: with only the playback timer acting on a running slideshow, every
\* index of the list becomes the current one, and N ticks make every index
\* the current one.
C17_EveryIndexShown ==
    /\ \A i \in 0..(MaxImages - 1) :
           []((slideshow_running /\ i < Len(images)) => <>(current_image = i))
    /\ [](ticks = Len(images) => seen = 0..(Len(images) - 1))

\* Three ticks of a backward slideshow over three images showed all three.
C17_Witness ==
    /\ Len(images) = 3
    /\ slideshow_direction = -1
    /\ ticks = 3
    /\ seen = {0, 1, 2}

\* C18: with a non-empty list and the slider's handle not held, the slider's
\* value is the index and its range is 0..N-1.
C18_SliderTracksIndex ==
    (images # <<>> /\ ~slide_slider.down) =>
        /\ slide_slider.value = current_image
        /\ slide_slider.maximum = Len(images) - 1

\* A timer tick moved the index and the slider with it.
C18_Witness ==
    /\ lastOp = "tick"
    /\ images # <<>>
    /\ ~slide_slider.down
    /\ pre.index # current_image
    /\ slide_slider.value = current_image

\* C19: a toggle changes nothing but the running flag, the playback timer
\* and the button's text.
C19_ToggleFrame ==
    [][lastOp' = "toggle" =>
          UNCHANGED <<images, current_image, slideshow_direction, slide_delay,
                      last_folder, slider_timer, slide_slider, delay_combo,
                      dir_label, file_label, slide_number_label,
                      direction_label, image_label, geometry, desktop,
                      config_file, show_pending>>]_vars

\* A stopped backward slideshow was started again on its third slide.
C19_Witness ==
    /\ lastOp = "toggle"
    /\ ~pre.running
    /\ slideshow_running
    /\ current_image = 2
    /\ pre.index = 2
    /\ slideshow_direction = -1

====
